---- MODULE Spec2Model ----
(***************************************************************************)
(* Model of the membership access reconciliation engine of the Telegram    *)
(* client: the periodic permission checker (TelegramClient.                *)
(* setupPermissionChecker), the permission store it reads and deletes      *)
(* from, the balance-check queue it submits to and the platform calls      *)
(* (getChatMember, banChatMember) it makes; the sentiment fan-out          *)
(* (SentimentService); the connection manager (RedisService) and the       *)
(* start and shutdown sequence of the client.                              *)
(*                                                                         *)
(* Granularity: every `await` of the timer callback is a scheduling point. *)
(* An action resolves the pending await of one tick (the external call     *)
(* takes effect and returns or fails) and runs the synchronous code that   *)
(* follows up to the next await.  Ticks of the same timer may overlap.     *)
(***************************************************************************)
EXTENDS Integers, Sequences, FiniteSets, TLC

\* ------------------------------------------------------------------ bounds
MaxTicks == 2
MaxWrites == 1
MaxStarts == 2
MaxBatches == 2
MaxSignals == 2
MaxIdLen == 4
MaxTopics == 4

\* --------------------------------------------------------- program constants
Interval == 60000

\* ------------------------------------------------------------- value spaces
UserIds == {"111", "222"}

None == "none"

\* Raw stored values of a permission key (None: the key does not exist).
RecTrue == "{\"hasRequiredBalance\":true}"
RecFalse == "{\"hasRequiredBalance\":false}"
RecBad == "{hasRequiredBalance"
Values == {RecTrue, RecFalse, RecBad}

\* Configured PRIVATE_GROUP_ID settings, as character sequences.
GroupIds == {<<>>, <<"7">>}

Statuses == {"creator", "administrator", "member"}
Members == [status : Statuses, is_bot : BOOLEAN]

VARIABLES
    store,      \* permission keyspace: key -> raw value or None
    queue,      \* jobs accepted by the balance-checks queue
    banned,     \* users removed from the group by a successful banChatMember
    groupId,    \* runtime setting PRIVATE_GROUP_ID
    ticks,      \* per timer callback invocation: its position and locals
    writes,     \* number of writes of the external worker so far
    envGroupId, \* process.env.PRIVATE_GROUP_ID (<<>>: not set)
    services,   \* the SentimentService objects constructed so far
    batches,    \* messages received on the sentiment channel so far
    sends,      \* sendMessage calls of the fan-out and how they settled
    mgr,        \* RedisService: the static instance and its two connections
    client,     \* TelegramClient: timer, start() position, signal handlers
    shut,       \* signals received and the handler invocations they started
    faults      \* errors that escaped their handler (unhandled rejections)

tickVars == <<store, queue, banned, groupId, ticks, writes>>
fanVars == <<envGroupId, services, batches, sends>>
lifeVars == <<mgr, client, shut>>
vars == <<store, queue, banned, groupId, ticks, writes,
          envGroupId, services, batches, sends, mgr, client, shut, faults>>

\* ------------------------------------------------------------------ helpers
UserKey(u) == <<"user", u, "permissions">>
Keys == {UserKey(u) : u \in UserIds}

\* userKey.split(":")[1]
UserIdOf(k) == k[2]

\* JSON.parse(permissions): the parsed object; threw: it raised SyntaxError
JsonParse(v) ==
    CASE v = RecTrue -> [threw |-> FALSE, hasRequiredBalance |-> TRUE]
      [] v = RecFalse -> [threw |-> FALSE, hasRequiredBalance |-> FALSE]
      [] OTHER -> [threw |-> TRUE, hasRequiredBalance |-> FALSE]

NoData == [threw |-> TRUE, hasRequiredBalance |-> FALSE]
NoMember == [status |-> "none", is_bot |-> FALSE]

StartsWith(s, p) == Len(s) >= Len(p) /\ SubSeq(s, 1, Len(p)) = p

\* String.prototype.replace("-", ""): drops the first "-" of the string
RECURSIVE ReplaceFirstDash(_)
ReplaceFirstDash(s) ==
    IF s = <<>> THEN <<>>
    ELSE IF Head(s) = "-" THEN Tail(s)
    ELSE <<Head(s)>> \o ReplaceFirstDash(Tail(s))

SupergroupPrefix == <<"-", "1", "0", "0">>

\* Variant of the normalisation without the startsWith test.
FormatGroupIdAlwaysPrefixed(g) == SupergroupPrefix \o ReplaceFirstDash(g)

FormatGroupId(g) ==
    IF StartsWith(g, SupergroupPrefix) THEN g
    ELSE SupergroupPrefix \o ReplaceFirstDash(g)

\* The orders in which redis.keys may return the existing keys.
Enumerations(st) ==
    LET present == {k \in Keys : st[k] # None}
    IN {s \in UNION {[1..n -> present] : n \in 0..Cardinality(present)} :
          /\ Len(s) = Cardinality(present)
          /\ \A i, j \in 1..Len(s) : i # j => s[i] # s[j]}

\* Variant in which store and queue commands use the subscriber connection.
ConnOfOneShared(op) ==
    CASE op \in {"keys", "get", "del", "add"} -> "subscriber"
      [] OTHER -> "telegram"

\* The connection a call of the timer callback is issued on:
\* this.redisService.redis for the store commands, the connections Bull
\* opened for the queue, the bot's HTTP client for the platform calls.
ConnOf(op) ==
    CASE op \in {"keys", "get", "del"} -> "redis"
      [] op = "add" -> "bull"
      [] OTHER -> "telegram"

Ev(op, res) == [op |-> op, res |-> res, conn |-> ConnOf(op)]

\* Locals of one invocation of the timer callback.
\*   pc      the await the invocation is suspended at ("idle": not started)
\*   group   const groupId            gid    const formattedGroupId
\*   users   const users              idx    position of the for..of loop
\*   data    const data               member const member
\*   why     which banChatMember call is pending ("bot" or "balance")
\* History kept for the properties (never read by the callback):
\*   tlog    results of the calls made before the loop, in order
\*   cur     results of the calls made for the key at idx, in order
\*   fetched keys a GET was issued for, in order
\*   stale   keys the external worker wrote since this tick enumerated
IdleTick ==
    [pc |-> "idle", group |-> <<>>, gid |-> <<>>, users |-> <<>>, idx |-> 0,
     data |-> NoData, member |-> NoMember, why |-> None,
     cur |-> <<>>, tlog |-> <<>>, fetched |-> <<>>, stale |-> {}]

TickIds == 1..MaxTicks

\* ------------------------------------------------- the connection manager
Signals == {"SIGINT", "SIGTERM", "SIGHUP"}

DefaultRedisUrl == "redis://localhost:6379"

\* process.env.REDIS_URL (None: not set)
EnvRedisUrl == None

\* this.REDIS_URL = process.env.REDIS_URL || 'redis://localhost:6379'
RedisUrl == IF EnvRedisUrl = None THEN DefaultRedisUrl ELSE EnvRedisUrl

\* RedisService and BalanceCheckService before anything was constructed.
\*   instance   RedisService.instance (0: undefined)
\*   created    number of RedisService objects constructed
\*   handed     the instances getInstance() has returned
\*   conns      number of connections opened by RedisService constructors
\*   redis, subscriber   state of this.redis / this.subscriber:
\*              "none", "open", "closing" (quit sent), "closed"
\*   subscribed the subscriber connection is subscribed to the channel
\*   subCmds    commands issued on the subscriber connection so far
\*   balance    BalanceCheckService.instance exists (its queue is open)
NoManager ==
    [instance |-> 0, created |-> 0, handed |-> {}, conns |-> 0,
     redis |-> "none", subscriber |-> "none",
     redisUrl |-> None, subUrl |-> None, queueUrl |-> None,
     subscribed |-> FALSE, subCmds |-> {}, balance |-> FALSE]

\* new RedisService(): two connections to REDIS_URL, one SIGTERM listener.
NewRedisService(m) ==
    [m EXCEPT !.created = @ + 1, !.instance = m.created + 1, !.conns = @ + 2,
              !.redis = "open", !.subscriber = "open",
              !.redisUrl = RedisUrl, !.subUrl = RedisUrl,
              !.subscribed = FALSE]

\* Variant of getInstance that constructs on every call.
GetInstanceAlwaysNew(m) ==
    LET n == NewRedisService(m)
    IN [n EXCEPT !.handed = @ \cup {n.instance}]

\* RedisService.getInstance()
GetInstance(m) ==
    LET n == IF m.instance = 0 THEN NewRedisService(m) ELSE m
    IN [n EXCEPT !.handed = @ \cup {n.instance}]

\* BalanceCheckService.getInstance(): its constructor asks for the
\* RedisService and opens the Bull queue on the same REDIS_URL.
BalanceGetInstance(m) ==
    IF m.balance THEN m
    ELSE LET n == GetInstance(m)
         IN [n EXCEPT !.balance = TRUE, !.queueUrl = n.redisUrl]

\* A command issued on a connection is rejected unless the connection is open.
Rejected(conn) == conn # "open"

\* this.redisService.subscriber.subscribe("sentiment:updates")
Subscribe(m) ==
    [m EXCEPT !.subCmds = @ \cup {"subscribe"},
              !.subscribed = @ \/ ~Rejected(m.subscriber)]

\* ---------------------------------------------------------- the client
\*   constructed  the TelegramClient exists
\*   timerOn      checkPermissionsInterval is set and not cleared
\*   startPc      the await start() is suspended at
\*   starts       number of start() calls so far
\*   armed        once-listeners of setupShutdownHandlers still registered
\*   fan          this.sentimentService (index into services, 0: undefined)
NoClient ==
    [constructed |-> FALSE, timerOn |-> FALSE, startPc |-> "idle",
     starts |-> 0, armed |-> [s \in Signals |-> 0], fan |-> 0]

\* new TelegramClient(runtime, botToken)
ConstructedManager == BalanceGetInstance(GetInstance(NoManager))
ConstructedClient == [NoClient EXCEPT !.constructed = TRUE, !.timerOn = TRUE]

\*   signals  the signals received, in order
\*   alive    the process has not been terminated by a signal
\*   quits    invocations of the RedisService SIGTERM listener
\*   stops    invocations of TelegramClient.stop() by the shutdown handler
NoShutdown == [signals |-> <<>>, alive |-> TRUE, quits |-> <<>>, stops |-> <<>>]

\* The state after the client was constructed.
Init ==
    /\ store \in [Keys -> Values \cup {None}]
    /\ queue = <<>>
    /\ banned = {}
    /\ groupId \in GroupIds
    /\ ticks = [t \in TickIds |-> IdleTick]
    /\ writes = 0
    /\ envGroupId = <<>>
    /\ services = <<>>
    /\ batches = <<>>
    /\ sends = <<>>
    /\ mgr = ConstructedManager
    /\ client = ConstructedClient
    /\ shut = NoShutdown
    /\ faults = 0

\* ------------------------------------------------- the timer callback's code
\* One key is finished (its block ran to the end, hit a continue or landed in
\* the per-key catch): the for..of loop is about to take the next key.
Advance(tk) == [tk EXCEPT !.pc = "next"]

\* for (const userKey of users): take the next key and issue its GET, or
\* leave the loop (and the callback) after the last key.
TakeNext(tk) ==
    LET i == tk.idx + 1
        fresh == [tk EXCEPT !.idx = i, !.data = NoData, !.member = NoMember,
                            !.why = None, !.cur = <<>>]
    IN IF i > Len(tk.users)
       THEN [fresh EXCEPT !.pc = "done"]
       ELSE [fresh EXCEPT !.pc = "get", !.fetched = Append(@, tk.users[i])]

\* Variant of Begin that does not test the setting.
BeginUnchecked(tk, g) == [tk EXCEPT !.pc = "add", !.group = g]

\* The callback starts: read the setting; return when it is not set, else
\* submit the balance-check job.
Begin(tk, g) ==
    IF g = <<>>
    THEN [tk EXCEPT !.pc = "done", !.group = g, !.tlog = <<Ev("skip", "ok")>>]
    ELSE [tk EXCEPT !.pc = "add", !.group = g]

\* Variant of AfterAdd that submits again when the submission was rejected.
AfterAddResubmits(tk, ok) ==
    IF ok
    THEN [tk EXCEPT !.pc = "keys", !.tlog = Append(@, Ev("add", "ok"))]
    ELSE IF Len(tk.tlog) < 1
    THEN [tk EXCEPT !.pc = "add", !.tlog = Append(@, Ev("add", "err"))]
    ELSE [tk EXCEPT !.pc = "done", !.tlog = Append(@, Ev("add", "err"))]

\* queue.add settled: go on to redis.keys, or leave through the outer catch.
AfterAdd(tk, ok) ==
    IF ok
    THEN [tk EXCEPT !.pc = "keys", !.tlog = Append(@, Ev("add", "ok"))]
    ELSE [tk EXCEPT !.pc = "done", !.tlog = Append(@, Ev("add", "err"))]

\* redis.keys returned us: format the group id and enter the loop.
AfterKeys(tk, us) ==
    TakeNext([tk EXCEPT !.users = us, !.idx = 0, !.stale = {},
                       !.gid = FormatGroupId(tk.group),
                       !.tlog = Append(@, Ev("keys", "ok"))])

\* redis.keys rejected: outer catch.
KeysFailed(tk) ==
    [tk EXCEPT !.pc = "done", !.tlog = Append(@, Ev("keys", "err"))]

\* Variant of AfterGet that goes on to the lookup with whatever it parsed.
AfterGetLooksUpAnyway(tk, v) ==
    IF v = None
    THEN [tk EXCEPT !.cur = <<Ev("get", "nil")>>, !.pc = "lookup"]
    ELSE IF JsonParse(v).threw
    THEN [tk EXCEPT !.cur = <<Ev("get", "bad")>>, !.pc = "lookup"]
    ELSE [tk EXCEPT !.cur = <<Ev("get", "ok")>>,
                    !.data = JsonParse(v), !.pc = "lookup"]

\* redis.get returned v (None: null): missing -> continue; JSON.parse throws
\* -> per-key catch; else look the member up.
AfterGet(tk, v) ==
    IF v = None
    THEN Advance([tk EXCEPT !.cur = <<Ev("get", "nil")>>])
    ELSE IF JsonParse(v).threw
    THEN Advance([tk EXCEPT !.cur = <<Ev("get", "bad")>>])
    ELSE [tk EXCEPT !.cur = <<Ev("get", "ok")>>,
                    !.data = JsonParse(v), !.pc = "lookup"]

\* Variant of GetFailed that starts the loop over from the first key.
GetFailedStartsOver(tk) ==
    Advance([tk EXCEPT !.cur = <<Ev("get", "err")>>, !.idx = 0,
                       !.fetched = <<>>])

\* Variant of GetFailed whose error escapes the loop.
GetFailedAborts(tk) == [tk EXCEPT !.pc = "done", !.cur = <<Ev("get", "err")>>]

\* redis.get rejected: per-key catch.
GetFailed(tk) ==
    Advance([tk EXCEPT !.cur = <<Ev("get", "err")>>])

\* Variant of Exempt that knows the creator only.
ExemptCreatorOnly(m) == m.status = "creator"

\* member.status === "creator" || member.status === "administrator"
Exempt(m) == m.status \in {"creator", "administrator"}

\* Variant of AfterLookup without the bot rule.
AfterLookupNoBotRule(tk, m) ==
    LET seen == [tk EXCEPT !.member = m, !.cur = Append(@, Ev("lookup", "ok"))]
    IN IF m.status \in {"creator", "administrator"}
       THEN [seen EXCEPT !.pc = "next"]
       ELSE IF ~tk.data.hasRequiredBalance
       THEN [seen EXCEPT !.pc = "ban", !.why = "balance"]
       ELSE [seen EXCEPT !.pc = "del"]

\* Variant of AfterLookup that tests the balance flag without the negation.
AfterLookupBansHolders(tk, m) ==
    LET seen == [tk EXCEPT !.member = m, !.cur = Append(@, Ev("lookup", "ok"))]
    IN IF m.status \in {"creator", "administrator"}
       THEN [seen EXCEPT !.pc = "next"]
       ELSE IF m.is_bot THEN [seen EXCEPT !.pc = "ban", !.why = "bot"]
       ELSE IF tk.data.hasRequiredBalance
       THEN [seen EXCEPT !.pc = "ban", !.why = "balance"]
       ELSE [seen EXCEPT !.pc = "del"]

\* getChatMember returned m.
AfterLookup(tk, m) ==
    LET seen == [tk EXCEPT !.member = m, !.cur = Append(@, Ev("lookup", "ok"))]
    IN IF Exempt(m) THEN Advance(seen)
       ELSE IF m.is_bot THEN [seen EXCEPT !.pc = "ban", !.why = "bot"]
       ELSE IF ~tk.data.hasRequiredBalance
       THEN [seen EXCEPT !.pc = "ban", !.why = "balance"]
       ELSE [seen EXCEPT !.pc = "del"]

\* Variant of LookupFailed that skips the key instead of deleting it.
LookupFailedSkips(tk) ==
    [tk EXCEPT !.pc = "next", !.cur = Append(@, Ev("lookup", "err"))]

\* getChatMember rejected: inner catch, then redis.del.
LookupFailed(tk) ==
    [tk EXCEPT !.pc = "del", !.cur = Append(@, Ev("lookup", "err"))]

\* Variant of AfterBan that continues with the next key after every
\* successful removal.
AfterBanContinues(tk, ok) ==
    IF ok
    THEN [tk EXCEPT !.pc = "next", !.cur = Append(@, Ev("ban", "ok"))]
    ELSE [tk EXCEPT !.pc = "del", !.cur = Append(@, Ev("ban", "err"))]

\* Variant of AfterBan that calls banChatMember again when it failed.
AfterBanRetries(tk, ok) ==
    IF ok
    THEN IF tk.why = "bot"
         THEN [tk EXCEPT !.pc = "next", !.cur = Append(@, Ev("ban", "ok"))]
         ELSE [tk EXCEPT !.pc = "del", !.cur = Append(@, Ev("ban", "ok"))]
    ELSE IF Len(tk.cur) < 3
    THEN [tk EXCEPT !.pc = "ban", !.cur = Append(@, Ev("ban", "err"))]
    ELSE [tk EXCEPT !.pc = "del", !.cur = Append(@, Ev("ban", "err"))]

\* banChatMember settled: the bot branch continues with the next key, the
\* balance branch and the inner catch fall through to redis.del.
AfterBan(tk, ok) ==
    IF ok
    THEN IF tk.why = "bot"
         THEN Advance([tk EXCEPT !.cur = Append(@, Ev("ban", "ok"))])
         ELSE [tk EXCEPT !.pc = "del", !.cur = Append(@, Ev("ban", "ok"))]
    ELSE [tk EXCEPT !.pc = "del", !.cur = Append(@, Ev("ban", "err"))]

\* redis.del settled (a rejection goes to the per-key catch): next key.
AfterDel(tk, ok) ==
    IF ok
    THEN Advance([tk EXCEPT !.cur = Append(@, Ev("del", "ok"))])
    ELSE Advance([tk EXCEPT !.cur = Append(@, Ev("del", "err"))])

CurKey(tk) == tk.users[tk.idx]

\* ------------------------------------------------------------------ actions
\* setInterval fires for the t-th time: the callback is invoked whether or
\* not earlier invocations have returned.
TimerFire(t) ==
    /\ shut.alive
    /\ client.timerOn
    /\ ticks[t].pc = "idle"
    /\ \A s \in 1..(t - 1) : ticks[s].pc # "idle"
    /\ ticks' = [ticks EXCEPT ![t] = Begin(@, groupId)]
    /\ UNCHANGED <<store, queue, banned, groupId, writes, fanVars, lifeVars, faults>>

InFlight(t) == ticks[t].pc \notin {"idle", "done"}

\* The timer fires after every earlier invocation has returned: a run in
\* which each tick takes less than the interval.
TimerFireInTime(t) ==
    /\ \A s \in TickIds : ~InFlight(s)
    /\ TimerFire(t)

AddReturn(t) ==
    /\ shut.alive
    /\ ticks[t].pc = "add"
    /\ \/ /\ queue' = Append(queue, [groupId |-> ticks[t].group,
                                      timestamp |-> t * Interval])
          /\ ticks' = [ticks EXCEPT ![t] = AfterAdd(@, TRUE)]
       \/ /\ queue' = queue
          /\ ticks' = [ticks EXCEPT ![t] = AfterAdd(@, FALSE)]
    /\ UNCHANGED <<store, banned, groupId, writes, fanVars, lifeVars, faults>>

KeysReturn(t) ==
    /\ shut.alive
    /\ ticks[t].pc = "keys"
    /\ \/ /\ ~Rejected(mgr.redis)
          /\ \E us \in Enumerations(store) :
                ticks' = [ticks EXCEPT ![t] = AfterKeys(@, us)]
       \/ ticks' = [ticks EXCEPT ![t] = KeysFailed(@)]
    /\ UNCHANGED <<store, queue, banned, groupId, writes, fanVars, lifeVars, faults>>

GetReturn(t) ==
    /\ shut.alive
    /\ ticks[t].pc = "get"
    /\ \/ /\ ~Rejected(mgr.redis)
          /\ ticks' = [ticks EXCEPT ![t] = AfterGet(@, store[CurKey(@)])]
       \/ ticks' = [ticks EXCEPT ![t] = GetFailed(@)]
    /\ UNCHANGED <<store, queue, banned, groupId, writes, fanVars, lifeVars, faults>>

LookupReturn(t) ==
    /\ shut.alive
    /\ ticks[t].pc = "lookup"
    /\ \/ \E m \in Members : ticks' = [ticks EXCEPT ![t] = AfterLookup(@, m)]
       \/ ticks' = [ticks EXCEPT ![t] = LookupFailed(@)]
    /\ UNCHANGED <<store, queue, banned, groupId, writes, fanVars, lifeVars, faults>>

BanReturn(t) ==
    /\ shut.alive
    /\ ticks[t].pc = "ban"
    /\ \/ /\ banned' = banned \cup {UserIdOf(CurKey(ticks[t]))}
          /\ ticks' = [ticks EXCEPT ![t] = AfterBan(@, TRUE)]
       \/ /\ banned' = banned
          /\ ticks' = [ticks EXCEPT ![t] = AfterBan(@, FALSE)]
    /\ UNCHANGED <<store, queue, groupId, writes, fanVars, lifeVars, faults>>

\* Variant of DelReturn whose command removes every permission key.
DelReturnRewrites(t) ==
    /\ shut.alive
    /\ ticks[t].pc = "del"
    /\ \/ /\ ~Rejected(mgr.redis)
          /\ store' = [store EXCEPT ![CurKey(ticks[t])] = RecTrue]
          /\ ticks' = [ticks EXCEPT ![t] = AfterDel(@, TRUE)]
       \/ /\ store' = store
          /\ ticks' = [ticks EXCEPT ![t] = AfterDel(@, FALSE)]
    /\ UNCHANGED <<queue, banned, groupId, writes, fanVars, lifeVars, faults>>

DelReturnRemovesAll(t) ==
    /\ shut.alive
    /\ ticks[t].pc = "del"
    /\ \/ /\ ~Rejected(mgr.redis)
          /\ store' = [k \in Keys |-> None]
          /\ ticks' = [ticks EXCEPT ![t] = AfterDel(@, TRUE)]
       \/ /\ store' = store
          /\ ticks' = [ticks EXCEPT ![t] = AfterDel(@, FALSE)]
    /\ UNCHANGED <<queue, banned, groupId, writes, fanVars, lifeVars, faults>>

DelReturn(t) ==
    /\ shut.alive
    /\ ticks[t].pc = "del"
    /\ \/ /\ ~Rejected(mgr.redis)
          /\ store' = [store EXCEPT ![CurKey(ticks[t])] = None]
          /\ ticks' = [ticks EXCEPT ![t] = AfterDel(@, TRUE)]
       \/ /\ store' = store
          /\ ticks' = [ticks EXCEPT ![t] = AfterDel(@, FALSE)]
    /\ UNCHANGED <<queue, banned, groupId, writes, fanVars, lifeVars, faults>>

\* The loop moves on from a finished key.
LoopStep(t) ==
    /\ shut.alive
    /\ ticks[t].pc = "next"
    /\ ticks' = [ticks EXCEPT ![t] = TakeNext(@)]
    /\ UNCHANGED <<store, queue, banned, groupId, writes, fanVars, lifeVars, faults>>

\* The external balance worker writes a permission record.
WorkerWrite(k, v) ==
    /\ shut.alive
    /\ writes < MaxWrites
    /\ writes' = writes + 1
    /\ store' = [store EXCEPT ![k] = v]
    /\ ticks' = [t \in TickIds |->
                   IF ticks[t].pc \in {"get", "lookup", "ban", "del", "next", "done"}
                      /\ ticks[t].users # <<>>
                   THEN [ticks[t] EXCEPT !.stale = @ \cup {k}]
                   ELSE ticks[t]]
    /\ UNCHANGED <<queue, banned, groupId, fanVars, lifeVars, faults>>

Next ==
    \/ \E t \in TickIds : TimerFireInTime(t)
    \/ \E t \in TickIds : AddReturn(t)
    \/ \E t \in TickIds : KeysReturn(t)
    \/ \E t \in TickIds : GetReturn(t)
    \/ \E t \in TickIds : LookupReturn(t)
    \/ \E t \in TickIds : BanReturn(t)
    \/ \E t \in TickIds : DelReturn(t)
    \/ \E t \in TickIds : LoopStep(t)
    \/ \E k \in Keys, v \in Values : WorkerWrite(k, v)

\* Ticks that end within the interval, with the external worker writing.
Spec == Init /\ [][Next]_vars

\* Every call a tick awaits settles (it returns or it fails), and the loop
\* takes its next key: no step of a started callback is postponed for ever.
TickFairness ==
    \A t \in TickIds :
        /\ WF_vars(AddReturn(t))
        /\ WF_vars(KeysReturn(t))
        /\ WF_vars(GetReturn(t))
        /\ WF_vars(LookupReturn(t))
        /\ WF_vars(BanReturn(t))
        /\ WF_vars(DelReturn(t))
        /\ WF_vars(LoopStep(t))

NextInTime ==
    \/ \E t \in TickIds : TimerFireInTime(t)
    \/ \E t \in TickIds : AddReturn(t)
    \/ \E t \in TickIds : KeysReturn(t)
    \/ \E t \in TickIds : GetReturn(t)
    \/ \E t \in TickIds : LookupReturn(t)
    \/ \E t \in TickIds : BanReturn(t)
    \/ \E t \in TickIds : DelReturn(t)
    \/ \E t \in TickIds : LoopStep(t)

\* Ticks that end within the interval, with every awaited call settling.
SpecFair == Init /\ [][NextInTime]_vars /\ TickFairness

NextOverlap ==
    \/ \E t \in TickIds : TimerFire(t)
    \/ \E t \in TickIds : AddReturn(t)
    \/ \E t \in TickIds : KeysReturn(t)
    \/ \E t \in TickIds : GetReturn(t)
    \/ \E t \in TickIds : LookupReturn(t)
    \/ \E t \in TickIds : BanReturn(t)
    \/ \E t \in TickIds : DelReturn(t)
    \/ \E t \in TickIds : LoopStep(t)

\* Ticks that may outlive the interval and overlap; no worker writes.
SpecOverlap == Init /\ [][NextOverlap]_vars

\* A non-holder's record and a record that is not JSON, destination set.
InitRace ==
    /\ store = [k \in Keys |-> IF k = UserKey("111") THEN RecFalse ELSE RecBad]
    /\ queue = <<>>
    /\ banned = {}
    /\ groupId = <<"7">>
    /\ ticks = [t \in TickIds |-> IdleTick]
    /\ writes = 0
    /\ envGroupId = <<>>
    /\ services = <<>>
    /\ batches = <<>>
    /\ sends = <<>>
    /\ mgr = ConstructedManager
    /\ client = ConstructedClient
    /\ shut = NoShutdown
    /\ faults = 0

\* Overlapping ticks racing for the same two records.
SpecRace == InitRace /\ [][NextOverlap]_vars

\* ------------------------------------------------------ the sentiment fan-out
\* Messages arriving on "sentiment:updates".
\*   kind      "garbage": not JSON; "null": the JSON value null;
\*             "bare": an object without metadata; "batch": with metadata
\*   hasCount  metadata.significantTweetsCount is present
\*   count     its value
\*   body      statistics and tweets are present
\*   topics    statistics.topTopics, in the order of the payload
Garbage ==
    [kind |-> "garbage", hasCount |-> FALSE, count |-> 0, body |-> FALSE,
     topics |-> <<>>]
JsonNull ==
    [kind |-> "null", hasCount |-> FALSE, count |-> 0, body |-> FALSE,
     topics |-> <<>>]
Bare ==
    [kind |-> "bare", hasCount |-> FALSE, count |-> 0, body |-> TRUE,
     topics |-> <<>>]
Batch(hasCount, count, body) ==
    [kind |-> "batch", hasCount |-> hasCount, count |-> count, body |-> body,
     topics |-> <<>>]
Batches ==
    {Batch(TRUE, c, b) : c \in {0, 2}, b \in BOOLEAN}
        \cup {Batch(FALSE, 0, b) : b \in BOOLEAN}
Payloads == {Garbage, JsonNull, Bare} \cup Batches

\* Variant of the suppression test that only looks at the destination.
SuppressedOnlyUnset(gid, p) == gid = <<>>

\* update.metadata.significantTweetsCount === 0 || !this.privateGroupId
Suppressed(gid, p) == (p.hasCount /\ p.count = 0) \/ gid = <<>>

\* broadcastUpdate(update) up to its await: "threw" (a TypeError left it),
\* "skip" (it returned early) or "send" (sendMessage was called).
BroadcastUpdate(gid, p) ==
    IF p.kind # "batch" THEN "threw"
    ELSE IF Suppressed(gid, p) THEN "skip"
    ELSE IF ~p.body THEN "threw"
    ELSE "send"

\* The "message" listener of one SentimentService up to its await: what it
\* did and whether an error left it.
OnMessage(gid, p) ==
    IF p.kind = "garbage" THEN [out |-> "threw", escaped |-> FALSE]
    ELSE [out |-> BroadcastUpdate(gid, p), escaped |-> FALSE]

\* `${topic.topic} (${topic.count})`, or 'Unknown' for an entry without name
RenderTopic(e) ==
    IF e.topic # "" THEN [text |-> e.topic, count |-> e.count]
    ELSE [text |-> "Unknown", count |-> 0]

\* topTopics.slice(0, 3).map(...): the entries of the topics line, in order
TopicsLine(tt) ==
    [i \in 1..(IF Len(tt) < 3 THEN Len(tt) ELSE 3) |-> RenderTopic(tt[i])]

\* The sendMessage calls the listeners make for the message numbered b.
SendsFor(b, p) ==
    LET call(i) == [batch |-> b, by |-> i,
                    to |-> FormatGroupId(services[i].privateGroupId),
                    line |-> TopicsLine(p.topics),
                    res |-> "pending"]
        all == [i \in 1..Len(services) |-> call(i)]
    IN SelectSeq(all, LAMBDA c :
                   OnMessage(services[c.by].privateGroupId, p).out = "send")

Escapes(p) ==
    Cardinality({i \in 1..Len(services) :
                   OnMessage(services[i].privateGroupId, p).escaped})

\* new TelegramClient(runtime, botToken): both singletons are asked for and
\* the permission checker's timer is started.
Construct ==
    /\ shut.alive
    /\ ~client.constructed
    /\ mgr' = BalanceGetInstance(GetInstance(mgr))
    /\ client' = [client EXCEPT !.constructed = TRUE, !.timerOn = TRUE]
    /\ UNCHANGED <<tickVars, fanVars, shut, faults>>

\* start() is called.
StartCall ==
    /\ shut.alive
    /\ client.constructed
    /\ client.startPc \in {"idle", "done", "failed"}
    /\ client.starts < MaxStarts
    /\ client' = [client EXCEPT !.startPc = "cmds", !.starts = @ + 1]
    /\ UNCHANGED <<tickVars, fanVars, mgr, shut, faults>>

\* setMyCommands settled: launch the bot and ask getMe, or leave start().
StartCmdsReturn ==
    /\ shut.alive
    /\ client.startPc = "cmds"
    /\ \/ client' = [client EXCEPT !.startPc = "me"]
       \/ client' = [client EXCEPT !.startPc = "failed"]
    /\ UNCHANGED <<tickVars, fanVars, mgr, shut, faults>>

\* getMe settled: new SentimentService(bot), which subscribes and adds its
\* message listener; then the shutdown handlers are registered.
StartMeReturn ==
    /\ shut.alive
    /\ client.startPc = "me"
    /\ \/ /\ services' = Append(services, [privateGroupId |-> envGroupId])
          /\ mgr' = Subscribe(GetInstance(mgr))
          /\ faults' = faults + (IF Rejected(mgr.subscriber) THEN 1 ELSE 0)
          /\ client' = [client EXCEPT !.startPc = "done",
                                      !.fan = Len(services) + 1,
                                      !.armed = [s \in Signals |-> @[s] + 1]]
       \/ /\ client' = [client EXCEPT !.startPc = "failed"]
          /\ UNCHANGED <<services, mgr, faults>>
    /\ UNCHANGED <<tickVars, envGroupId, batches, sends, shut>>

\* A message is published on the channel: every listener runs up to its await.
Publish(p) ==
    /\ shut.alive
    /\ mgr.subscribed
    /\ ~Rejected(mgr.subscriber)
    /\ Len(batches) < MaxBatches
    /\ batches' = Append(batches, [payload |-> p, listeners |-> Len(services)])
    /\ sends' = sends \o SendsFor(Len(batches) + 1, p)
    /\ faults' = faults + Escapes(p)
    /\ UNCHANGED <<tickVars, envGroupId, services, lifeVars>>

\* sendMessage settled; a rejection is caught inside broadcastUpdate.
SendReturn(i) ==
    /\ shut.alive
    /\ sends[i].res = "pending"
    /\ \E r \in {"ok", "err"} : sends' = [sends EXCEPT ![i].res = r]
    /\ UNCHANGED <<tickVars, envGroupId, services, batches, lifeVars, faults>>

\* Nothing is constructed yet; the environment names a destination or not.
InitFanout ==
    /\ store = [k \in Keys |-> None]
    /\ queue = <<>>
    /\ banned = {}
    /\ groupId = <<>>
    /\ ticks = [t \in TickIds |-> IdleTick]
    /\ writes = 0
    /\ envGroupId \in GroupIds
    /\ services = <<>>
    /\ batches = <<>>
    /\ sends = <<>>
    /\ mgr = NoManager
    /\ client = NoClient
    /\ shut = NoShutdown
    /\ faults = 0

NextFanout ==
    \/ Construct
    \/ StartCall
    \/ StartCmdsReturn
    \/ StartMeReturn
    \/ \E p \in Payloads : Publish(p)
    \/ \E i \in 1..Len(sends) : SendReturn(i)

\* The fan-out: construction, start() calls, messages on the channel,
\* deliveries.
SpecFanout == InitFanout /\ [][NextFanout]_vars

\* Destination ids the environment may hold, as character sequences.
IdChars == {"-", "0", "1"}
IdStrings == UNION {[1..n -> IdChars] : n \in 0..MaxIdLen}

\* The message every listener forwards when a destination is configured.
FullBatch == Batch(TRUE, 2, TRUE)

InitFormat ==
    /\ store = [k \in Keys |-> None]
    /\ queue = <<>>
    /\ banned = {}
    /\ groupId = <<>>
    /\ ticks = [t \in TickIds |-> IdleTick]
    /\ writes = 0
    /\ envGroupId \in IdStrings
    /\ services = <<>>
    /\ batches = <<>>
    /\ sends = <<>>
    /\ mgr = ConstructedManager
    /\ client = ConstructedClient
    /\ shut = NoShutdown
    /\ faults = 0

NextFormat ==
    \/ StartCall
    \/ StartCmdsReturn
    \/ StartMeReturn
    \/ Publish(FullBatch)

\* The sendMessage calls for full batches, for every destination id the
\* environment may hold.
SpecFormat == InitFormat /\ [][NextFormat]_vars

\* Topic counts a batch may carry: the k-th entry is named TopicNames[k].
TopicNames == <<"A", "B", "C", "D", "E", "F">>
TopicCounts == {1, 2}
TopicLists ==
    {[i \in 1..n |-> [topic |-> TopicNames[i], count |-> c[i]]] :
        n \in 0..MaxTopics, c \in [1..MaxTopics -> TopicCounts]}

BatchWithTopics(tt) == [FullBatch EXCEPT !.topics = tt]

InitTopics ==
    /\ store = [k \in Keys |-> None]
    /\ queue = <<>>
    /\ banned = {}
    /\ groupId = <<>>
    /\ ticks = [t \in TickIds |-> IdleTick]
    /\ writes = 0
    /\ envGroupId = <<"7">>
    /\ services = <<>>
    /\ batches = <<>>
    /\ sends = <<>>
    /\ mgr = ConstructedManager
    /\ client = ConstructedClient
    /\ shut = NoShutdown
    /\ faults = 0

NextTopics ==
    \/ StartCall
    \/ StartCmdsReturn
    \/ StartMeReturn
    \/ \E tt \in TopicLists : Publish(BatchWithTopics(tt))

\* The alerts rendered for full batches, for every list of topic counts.
SpecTopics == InitTopics /\ [][NextTopics]_vars

\* ------------------------------------------------------ start and shutdown
\* The listeners a signal has: the RedisService handles SIGTERM only; the
\* client's once-listeners exist after setupShutdownHandlers.
Quitters(sig) == IF sig = "SIGTERM" THEN mgr.created ELSE 0
Stoppers(sig) == client.armed[sig]

\* A signal arrives.  Without a listener the process is terminated; else
\* every listener runs up to its first await: the RedisService listener has
\* called redis.quit(), the client's has cleared the timer and called
\* bot.stop().
Signal(sig) ==
    /\ shut.alive
    /\ Len(shut.signals) < MaxSignals
    /\ IF Quitters(sig) + Stoppers(sig) = 0
       THEN /\ shut' = [shut EXCEPT !.signals = Append(@, sig), !.alive = FALSE]
            /\ UNCHANGED <<mgr, client>>
       ELSE /\ shut' = [shut EXCEPT
                          !.signals = Append(@, sig),
                          !.quits = @ \o [i \in 1..Quitters(sig) |->
                                            [pc |-> "redis",
                                             rej |-> Rejected(mgr.redis)]],
                          !.stops = @ \o [i \in 1..Stoppers(sig) |->
                                            [pc |-> "bot", rej |-> FALSE]]]
            /\ mgr' = IF Quitters(sig) > 0 /\ mgr.redis = "open"
                      THEN [mgr EXCEPT !.redis = "closing"]
                      ELSE mgr
            /\ client' = [client EXCEPT
                            !.armed[sig] = 0,
                            !.timerOn = IF Stoppers(sig) > 0 THEN FALSE ELSE @]
    /\ UNCHANGED <<tickVars, fanVars, faults>>

\* await this.redis.quit() settled: a rejection leaves the listener
\* unhandled; else the listener calls subscriber.quit().
QuitRedisReturn(i) ==
    /\ shut.alive
    /\ shut.quits[i].pc = "redis"
    /\ IF shut.quits[i].rej
       THEN /\ shut' = [shut EXCEPT !.quits[i].pc = "failed"]
            /\ faults' = faults + 1
            /\ mgr' = mgr
       ELSE /\ shut' = [shut EXCEPT
                          !.quits[i] = [pc |-> "subscriber",
                                        rej |-> Rejected(mgr.subscriber)]]
            /\ mgr' = [mgr EXCEPT
                         !.redis = "closed",
                         !.subCmds = @ \cup {"quit"},
                         !.subscriber = IF @ = "open" THEN "closing" ELSE @]
            /\ faults' = faults
    /\ UNCHANGED <<tickVars, fanVars, client>>

\* await this.subscriber.quit() settled.
QuitSubscriberReturn(i) ==
    /\ shut.alive
    /\ shut.quits[i].pc = "subscriber"
    /\ IF shut.quits[i].rej
       THEN /\ shut' = [shut EXCEPT !.quits[i].pc = "failed"]
            /\ faults' = faults + 1
            /\ mgr' = mgr
       ELSE /\ shut' = [shut EXCEPT !.quits[i].pc = "done"]
            /\ mgr' = [mgr EXCEPT !.subscriber = "closed", !.subscribed = FALSE]
            /\ faults' = faults
    /\ UNCHANGED <<tickVars, fanVars, client>>

\* await this.bot.stop() settled: stop() goes on to sentimentService.stop(),
\* which calls subscriber.unsubscribe(); an error leaves stop() and is
\* rethrown by the shutdown handler.
StopBotReturn(i) ==
    /\ shut.alive
    /\ shut.stops[i].pc = "bot"
    /\ \/ /\ client.fan # 0
          /\ shut' = [shut EXCEPT
                        !.stops[i] = [pc |-> "unsub",
                                      rej |-> Rejected(mgr.subscriber)]]
          /\ mgr' = [mgr EXCEPT !.subCmds = @ \cup {"unsubscribe"}]
          /\ faults' = faults
       \/ /\ shut' = [shut EXCEPT !.stops[i].pc = "failed"]
          /\ faults' = faults + 1
          /\ mgr' = mgr
    /\ UNCHANGED <<tickVars, fanVars, client>>

\* await subscriber.unsubscribe("sentiment:updates") settled.
StopUnsubReturn(i) ==
    /\ shut.alive
    /\ shut.stops[i].pc = "unsub"
    /\ IF shut.stops[i].rej
       THEN /\ shut' = [shut EXCEPT !.stops[i].pc = "failed"]
            /\ faults' = faults + 1
            /\ mgr' = mgr
       ELSE /\ shut' = [shut EXCEPT !.stops[i].pc = "done"]
            /\ mgr' = [mgr EXCEPT !.subscribed = FALSE]
            /\ faults' = faults
    /\ UNCHANGED <<tickVars, fanVars, client>>

\* Nothing is constructed yet; the store holds no record.
InitLife ==
    /\ store = [k \in Keys |-> None]
    /\ queue = <<>>
    /\ banned = {}
    /\ groupId = <<"7">>
    /\ ticks = [t \in TickIds |-> IdleTick]
    /\ writes = 0
    /\ envGroupId = <<"7">>
    /\ services = <<>>
    /\ batches = <<>>
    /\ sends = <<>>
    /\ mgr = NoManager
    /\ client = NoClient
    /\ shut = NoShutdown
    /\ faults = 0

NextLife ==
    \/ Construct
    \/ StartCall
    \/ StartCmdsReturn
    \/ StartMeReturn
    \/ \E sig \in Signals : Signal(sig)
    \/ \E i \in 1..Len(shut.quits) : QuitRedisReturn(i)
    \/ \E i \in 1..Len(shut.quits) : QuitSubscriberReturn(i)
    \/ \E i \in 1..Len(shut.stops) : StopBotReturn(i)
    \/ \E i \in 1..Len(shut.stops) : StopUnsubReturn(i)
    \/ \E t \in TickIds : TimerFireInTime(t)
    \/ \E t \in TickIds : AddReturn(t)
    \/ \E t \in TickIds : KeysReturn(t)

\* The process from before construction: start() calls, signals, and the
\* ticks of the timer over an empty store.
SpecLife == InitLife /\ [][NextLife]_vars

\* The client was constructed; the store holds one record without balance.
InitShared ==
    /\ store = [k \in Keys |-> IF k = UserKey("111") THEN RecFalse ELSE None]
    /\ queue = <<>>
    /\ banned = {}
    /\ groupId = <<"7">>
    /\ ticks = [t \in TickIds |-> IdleTick]
    /\ writes = 0
    /\ envGroupId = <<"7">>
    /\ services = <<>>
    /\ batches = <<>>
    /\ sends = <<>>
    /\ mgr = ConstructedManager
    /\ client = ConstructedClient
    /\ shut = NoShutdown
    /\ faults = 0

NextShared ==
    \/ StartCall
    \/ StartCmdsReturn
    \/ StartMeReturn
    \/ \E t \in TickIds : TimerFireInTime(t)
    \/ \E t \in TickIds : AddReturn(t)
    \/ \E t \in TickIds : KeysReturn(t)
    \/ \E t \in TickIds : GetReturn(t)
    \/ \E t \in TickIds : LookupReturn(t)
    \/ \E t \in TickIds : BanReturn(t)
    \/ \E t \in TickIds : DelReturn(t)
    \/ \E t \in TickIds : LoopStep(t)

\* Ticks over a store with one record while the fan-out is being started:
\* the users of the two connections side by side.
SpecShared == InitShared /\ [][NextShared]_vars

TypeOK ==
    /\ store \in [Keys -> Values \cup {None}]
    /\ banned \subseteq UserIds
    /\ writes \in 0..MaxWrites

\* --------------------------------------------------------------- properties
\* Reading the history of the key a tick is working on.
Has(tk, op) == \E i \in 1..Len(tk.cur) : tk.cur[i].op = op
HasRes(tk, op, res) == \E i \in 1..Len(tk.cur) : tk.cur[i] = Ev(op, res)
Count(tk, op) == Cardinality({i \in 1..Len(tk.cur) : tk.cur[i].op = op})
Before(tk, a, b) ==
    \E i, j \in 1..Len(tk.cur) :
        i < j /\ tk.cur[i].op = a /\ tk.cur[j].op = b
Enumerated(tk) == \E i \in 1..Len(tk.tlog) : tk.tlog[i] = Ev("keys", "ok")
Ordinary == [status |-> "member", is_bot |-> FALSE]
Holder == [threw |-> FALSE, hasRequiredBalance |-> TRUE]
NonHolder == [threw |-> FALSE, hasRequiredBalance |-> FALSE]
\* The DEL of the finished key went through and nobody wrote the key since
\* the enumeration: the key must be gone.
Deleted(tk) ==
    HasRes(tk, "del", "ok") /\ CurKey(tk) \notin tk.stale
        => store[CurKey(tk)] = None

\* C1: a tick that ran with a configured group leaves no enumerated key in the
\* store, whatever happened for the key, unless the worker wrote the key
\* during the tick.  A finished key is not touched again by its tick, so the
\* first conjunct states it for each key when the loop leaves it (store
\* commands that were rejected set aside), the second for the whole tick when
\* it has ended.
C1_EnumeratedKeysGone ==
    \A t \in TickIds :
        LET tk == ticks[t]
        IN /\ tk.pc = "next" /\ CurKey(tk) \notin tk.stale
              /\ ~HasRes(tk, "get", "err") /\ ~HasRes(tk, "del", "err")
              => store[CurKey(tk)] = None
           /\ tk.pc = "done" /\ Enumerated(tk)
              => \A i \in 1..Len(tk.users) :
                    tk.users[i] \notin tk.stale => store[tk.users[i]] = None

\* C2: banChatMember is never called (pending or returned) for a user the
\* lookup of this tick reported as creator or administrator, whatever the
\* stored record and the bot flag are.
C2_NeverBanOwnerOrAdmin ==
    \A t \in TickIds :
        ticks[t].pc = "ban" \/ Has(ticks[t], "ban")
            => ticks[t].member.status \notin {"creator", "administrator"}

\* An administrator with insufficient balance was looked up and its key is
\* finished without a removal.
C2_Witness ==
    \E t \in TickIds :
        /\ ticks[t].pc = "next"
        /\ ticks[t].member.status = "administrator"
        /\ ticks[t].data = NonHolder
        /\ ~Has(ticks[t], "ban")

\* C3: once the lookup reported a bot that is neither creator nor
\* administrator, banChatMember is called for it (it is pending or has
\* returned), with either value of the stored balance flag.
C3_BotAlwaysBanned ==
    \A t \in TickIds :
        ticks[t].member = [status |-> "member", is_bot |-> TRUE]
            => ticks[t].pc = "ban" \/ Has(ticks[t], "ban")

\* A bot whose record says it holds the balance was removed.
C3_Witness ==
    \E t \in TickIds :
        /\ ticks[t].pc = "next"
        /\ ticks[t].member = [status |-> "member", is_bot |-> TRUE]
        /\ ticks[t].data = Holder
        /\ HasRes(ticks[t], "ban", "ok")
        /\ UserIdOf(CurKey(ticks[t])) \in banned

\* C4: for a record with hasRequiredBalance false and an ordinary member that
\* is no bot, the tick calls banChatMember once and then DEL once, the ban
\* before the DEL; the record is gone when the DEL went through.
C4_BanThenDelete ==
    \A t \in TickIds :
        LET tk == ticks[t]
        IN tk.data = NonHolder /\ tk.member = Ordinary
           => /\ tk.pc \in {"ban", "del", "next"}
              /\ tk.pc = "ban" => ~Has(tk, "ban") /\ ~Has(tk, "del")
              /\ tk.pc = "del" => Count(tk, "ban") = 1 /\ ~Has(tk, "del")
              /\ tk.pc = "next"
                 => /\ Count(tk, "ban") = 1 /\ Count(tk, "del") = 1
                    /\ Before(tk, "ban", "del")
                    /\ Deleted(tk)

\* Scenario A: user 111 was removed and then its record deleted.
C4_Witness ==
    \E t \in TickIds :
        /\ ticks[t].pc = "next"
        /\ CurKey(ticks[t]) = UserKey("111")
        /\ ticks[t].data = NonHolder /\ ticks[t].member = Ordinary
        /\ ticks[t].cur = <<Ev("get", "ok"), Ev("lookup", "ok"),
                            Ev("ban", "ok"), Ev("del", "ok")>>
        /\ "111" \in banned
        /\ store[UserKey("111")] = None

\* C5: for a record with hasRequiredBalance true and an ordinary member that
\* is no bot, the tick never calls banChatMember and calls DEL once; the
\* record is gone when the DEL went through.
C5_HolderKeptRecordDeleted ==
    \A t \in TickIds :
        LET tk == ticks[t]
        IN tk.data = Holder /\ tk.member = Ordinary
           => /\ tk.pc \in {"del", "next"}
              /\ ~Has(tk, "ban")
              /\ tk.pc = "del" => ~Has(tk, "del")
              /\ tk.pc = "next" => Count(tk, "del") = 1 /\ Deleted(tk)

\* Scenario B: the record of user 222 was deleted and 222 was not removed.
C5_Witness ==
    \E t \in TickIds :
        /\ ticks[t].pc = "next"
        /\ CurKey(ticks[t]) = UserKey("222")
        /\ ticks[t].data = Holder /\ ticks[t].member = Ordinary
        /\ ticks[t].cur = <<Ev("get", "ok"), Ev("lookup", "ok"), Ev("del", "ok")>>
        /\ "222" \notin banned
        /\ store[UserKey("222")] = None

\* C6 as stated: after a failed lookup the tick calls neither banChatMember
\* nor DEL for the key, and the record is still in the store when the key is
\* finished.
C6_LookupFailureKeepsRecord ==
    \A t \in TickIds :
        LET tk == ticks[t]
        IN HasRes(tk, "lookup", "err")
           => /\ tk.pc # "ban" /\ ~Has(tk, "ban")
              /\ tk.pc # "del" /\ ~Has(tk, "del")
              /\ tk.pc = "next" => store[CurKey(tk)] # None

\* C6 amended: after a failed lookup the tick calls no banChatMember for the
\* key and then calls DEL for it once; the record is gone when the DEL went
\* through, so the next tick does not see the key again.
C6_LookupFailureDeletesRecord ==
    \A t \in TickIds :
        LET tk == ticks[t]
        IN HasRes(tk, "lookup", "err")
           => /\ tk.pc \in {"del", "next"}
              /\ ~Has(tk, "ban")
              /\ tk.pc = "del" => ~Has(tk, "del")
              /\ tk.pc = "next"
                 => /\ Count(tk, "del") = 1
                    /\ Before(tk, "lookup", "del")
                    /\ Deleted(tk)

\* The lookup failed and the record was deleted all the same.
C6_Witness ==
    \E t \in TickIds :
        /\ ticks[t].pc = "next"
        /\ ticks[t].cur = <<Ev("get", "ok"), Ev("lookup", "err"), Ev("del", "ok")>>
        /\ store[CurKey(ticks[t])] = None

\* C7: a tick calls banChatMember at most once per key, and after a failed
\* removal it calls DEL for the key (never a second banChatMember); the
\* record is gone when the DEL went through.
C7_FailedBanNotRetried ==
    \A t \in TickIds :
        LET tk == ticks[t]
            pending == IF tk.pc = "ban" THEN 1 ELSE 0
        IN /\ Count(tk, "ban") + pending <= 1
           /\ HasRes(tk, "ban", "err")
              => /\ tk.pc \in {"del", "next"}
                 /\ tk.pc = "del" => ~Has(tk, "del")
                 /\ tk.pc = "next"
                    => /\ Count(tk, "del") = 1
                       /\ Before(tk, "ban", "del")
                       /\ Deleted(tk)

\* A removal failed and the record was deleted.
C7_Witness ==
    \E t \in TickIds :
        /\ ticks[t].pc = "next"
        /\ ticks[t].cur = <<Ev("get", "ok"), Ev("lookup", "ok"),
                            Ev("ban", "err"), Ev("del", "ok")>>
        /\ store[CurKey(ticks[t])] = None
        /\ UserIdOf(CurKey(ticks[t])) \notin banned

\* C8: the keys a tick has issued a GET for are the enumerated keys up to the
\* position of the loop, each once and in the order of the enumeration; when
\* the tick has ended every enumerated key was fetched exactly once.
C8_EveryKeyFetchedOnce ==
    \A t \in TickIds :
        LET tk == ticks[t]
        IN Enumerated(tk)
           => /\ \A i, j \in 1..Len(tk.users) : i # j => tk.users[i] # tk.users[j]
              /\ tk.pc # "done" => tk.idx \in 1..Len(tk.users)
              /\ tk.pc # "done" => tk.fetched = SubSeq(tk.users, 1, tk.idx)
              /\ tk.pc = "done" => tk.fetched = tk.users

\* The tick has ended after fetching two keys although the first one, whose
\* record is malformed and still stored, could not be processed.
C8_Witness ==
    \E t \in TickIds :
        /\ ticks[t].pc = "done"
        /\ Len(ticks[t].fetched) = 2
        /\ writes = 0
        /\ store[ticks[t].users[1]] = RecBad

\* C9: a tick whose queue.add was rejected still goes on to redis.keys: it
\* does not end with the rejected submission as the last thing it did, and
\* once it has ended it has enumerated the keys and fetched every one.
C9_AddFailureDoesNotAbort ==
    \A t \in TickIds :
        LET tk == ticks[t]
        IN (\E i \in 1..Len(tk.tlog) : tk.tlog[i] = Ev("add", "err"))
           => /\ tk.pc # "idle"
              /\ tk.pc = "done"
                 => /\ \E i \in 1..Len(tk.tlog) : tk.tlog[i].op = "keys"
                    /\ Enumerated(tk) => tk.fetched = tk.users

\* C10: with no group configured every tick ends at once, having submitted,
\* enumerated, fetched, looked up, removed and deleted nothing; the steps of
\* the ticks leave the store, the queue and the removed members as they are.
C10_SkipState ==
    groupId = <<>>
        => /\ queue = <<>> /\ banned = {}
           /\ \A t \in TickIds :
                /\ ticks[t].pc \in {"idle", "done"}
                /\ ticks[t].pc = "done" => ticks[t].tlog = <<Ev("skip", "ok")>>
                /\ ticks[t].users = <<>> /\ ticks[t].fetched = <<>>
                /\ ticks[t].cur = <<>>

C10_SkipStep ==
    (groupId = <<>> /\ \E t \in TickIds : ticks'[t].pc # ticks[t].pc)
        => store' = store /\ queue' = queue /\ banned' = banned

C10_NoGroupNoEffect == []C10_SkipState /\ [][C10_SkipStep]_vars

\* Two ticks ran without a group, over a store that holds a record.
C10_Witness ==
    /\ groupId = <<>>
    /\ \A t \in TickIds : ticks[t].pc = "done"
    /\ \E k \in Keys : store[k] # None

\* C20: for a user the lookup reported as creator or administrator the tick
\* calls no banChatMember and, before it leaves the key, calls DEL for it once;
\* the record is gone when the DEL went through.
C20_ExemptRecordDeleted ==
    \A t \in TickIds :
        LET tk == ticks[t]
        IN tk.member.status \in {"creator", "administrator"}
           => /\ tk.pc \in {"del", "next"}
              /\ ~Has(tk, "ban")
              /\ tk.pc = "next" => Count(tk, "del") = 1 /\ Deleted(tk)

\* ------------------------------------------------------------- fan-out claims
PayloadOf(i) == batches[sends[i].batch].payload
ConfiguredOf(i) == services[sends[i].by].privateGroupId
SendsOf(b) == {i \in 1..Len(sends) : sends[i].batch = b}

\* C11: every sendMessage call of the fan-out is for a parsed batch whose
\* significant count is not 0, made by a service with a destination
\* configured; a batch with count 0, and any batch without a destination,
\* produces no call.
C11_SendOnlySignificantAndConfigured ==
    /\ \A i \in 1..Len(sends) :
          /\ PayloadOf(i).kind = "batch"
          /\ ~(PayloadOf(i).hasCount /\ PayloadOf(i).count = 0)
          /\ ConfiguredOf(i) # <<>>
    /\ \A b \in 1..Len(batches) :
          \/ batches[b].payload.hasCount /\ batches[b].payload.count = 0
          \/ envGroupId = <<>>
          => SendsOf(b) = {}

\* A listener received a complete batch with count 0 while a destination was
\* configured, and a batch with another count went out.
C11_Witness ==
    /\ envGroupId # <<>>
    /\ \E b \in 1..Len(batches) :
          /\ batches[b].payload = Batch(TRUE, 0, TRUE)
          /\ batches[b].listeners >= 1
    /\ \E i \in 1..Len(sends) : PayloadOf(i).count = 2

\* The normalisation as the claim words it: an id starting with "-100" is
\* used as it is; otherwise a leading sign is stripped and "-100" prepended.
StripLeadingSign(g) ==
    IF g # <<>> /\ Head(g) \in {"-", "+"} THEN Tail(g) ELSE g
ClaimedFormat(g) ==
    IF StartsWith(g, SupergroupPrefix) THEN g
    ELSE SupergroupPrefix \o StripLeadingSign(g)

\* C12 as stated: the id passed to sendMessage is the configured id if it
\* starts with "-100", else "-100" followed by the id without a leading sign.
C12_LeadingSignStripped ==
    \A i \in 1..Len(sends) : sends[i].to = ClaimedFormat(ConfiguredOf(i))

\* r is g without its first "-" (g itself when it has none).
WithoutFirstDash(g, r) ==
    IF \A k \in 1..Len(g) : g[k] # "-" THEN r = g
    ELSE \E k \in 1..Len(g) :
            /\ g[k] = "-"
            /\ \A j \in 1..(k - 1) : g[j] # "-"
            /\ r = SubSeq(g, 1, k - 1) \o SubSeq(g, k + 1, Len(g))

\* C12: the id passed to sendMessage is the configured id if it starts with
\* "-100"; otherwise it is "-100" followed by the configured id with its
\* first "-" removed, wherever that "-" stands, and nothing else removed.
C12_FirstDashRemoved ==
    \A i \in 1..Len(sends) :
        LET g == ConfiguredOf(i)
            to == sends[i].to
        IN IF StartsWith(g, SupergroupPrefix) THEN to = g
           ELSE /\ StartsWith(to, SupergroupPrefix)
                /\ WithoutFirstDash(g, SubSeq(to, 5, Len(to)))

\* sendMessage was called for a configured id whose first "-" is not leading.
C12_Witness ==
    \E i \in 1..Len(sends) :
        /\ ConfiguredOf(i) = <<"1", "-", "0">>
        /\ sends[i].to = <<"-", "1", "0", "0", "1", "0">>

\* A batch the listeners would forward: parsed, not suppressed, complete.
Forwardable(p) ==
    /\ p.kind = "batch"
    /\ p.body
    /\ ~(p.hasCount /\ p.count = 0)

\* C13: a published batch that passes the suppression checks is sent exactly
\* once over the whole run, and no failure leaves the message handler.
C13_ExactlyOneSend ==
    /\ faults = 0
    /\ \A b \in 1..Len(batches) :
          Forwardable(batches[b].payload) /\ envGroupId # <<>>
              => Cardinality(SendsOf(b)) = 1

\* A payload that is not a batch: invalid JSON, or JSON lacking a field the
\* batch type declares.
Malformed(p) == p.kind # "batch" \/ ~p.hasCount \/ ~p.body

\* C14: a message that cannot be parsed as a batch produces no sendMessage
\* call and no fault; the subscription stays and later well-formed batches
\* are forwarded by every listener.
C14_MalformedDropped ==
    /\ faults = 0
    /\ services # <<>> => mgr.subscribed
    /\ \A b \in 1..Len(batches) :
          Malformed(batches[b].payload) => SendsOf(b) = {}

\* ----------------------------------------------------------- shutdown claims
\* C15: every call of the fan-out's stop() completes without error, whatever
\* the state of the subscription and of the subscriber connection.
C15_StopNeverFails ==
    \A i \in 1..Len(shut.stops) :
        ~(shut.stops[i].pc = "failed" /\ shut.stops[i].rej)

Settled(h) == h.pc \in {"done", "failed"}
ShutdownFinished ==
    /\ shut.alive
    /\ shut.signals # <<>>
    /\ \A i \in 1..Len(shut.quits) : Settled(shut.quits[i])
    /\ \A i \in 1..Len(shut.stops) : Settled(shut.stops[i])

\* C16: once every handler a received signal started has finished, both
\* connections are closed and the fan-out is unsubscribed.
C16_ConnectionsClosedAfterShutdown ==
    ShutdownFinished
        => /\ mgr.redis = "closed"
           /\ mgr.subscriber = "closed"
           /\ ~mgr.subscribed

\* C17: after a signal was received no tick of the permission checker starts.
C17_NoTickAfterSignal ==
    [][shut.signals # <<>>
          => \A t \in TickIds : ticks[t].pc = "idle" => ticks'[t].pc = "idle"]_vars

\* ----------------------------------------------------- connection claims
TickEvents(tk) ==
    {tk.cur[i] : i \in 1..Len(tk.cur)} \cup {tk.tlog[i] : i \in 1..Len(tk.tlog)}
StoreOps == {"keys", "get", "del"}

\* C18 as stated: no store command and no queue submission is issued on the
\* subscriber connection; all of them go over the command connection.
C18_AllOverCommandConnection ==
    /\ mgr.subCmds \subseteq {"subscribe", "unsubscribe"}
    /\ \A t \in TickIds : \A e \in TickEvents(ticks[t]) :
          e.op \in StoreOps \cup {"add"} => e.conn = "redis"

\* C18: the subscriber connection carries subscribe and unsubscribe only; key
\* scan, GET and DEL go over the command connection, and queue submissions
\* over the connections the queue opened itself, never over the subscriber.
C18_SubscriberOnlySubscribes ==
    /\ mgr.subCmds \subseteq {"subscribe", "unsubscribe"}
    /\ \A t \in TickIds : \A e \in TickEvents(ticks[t]) :
          /\ e.op \in StoreOps => e.conn = "redis"
          /\ e.op = "add" => e.conn = "bull"

\* The subscriber is subscribed while a tick has issued GET and is at DEL.
C18_Witness ==
    /\ mgr.subscribed
    /\ "subscribe" \in mgr.subCmds
    /\ \E t \in TickIds :
          /\ ticks[t].pc = "del"
          /\ Has(ticks[t], "get")
          /\ \E e \in TickEvents(ticks[t]) : e.op = "add"

\* C19: once anything asked for the connection manager, exactly one was
\* created, every getInstance() call returned it, and it holds one command
\* and one subscriber connection to the same address.
C19_OneManager ==
    mgr.handed # {}
        => /\ mgr.created = 1
           /\ mgr.handed = {mgr.instance}
           /\ mgr.conns = 2
           /\ mgr.redis # "none" /\ mgr.subscriber # "none"
           /\ mgr.redisUrl = mgr.subUrl
           /\ mgr.redisUrl # None

\* The client, the job queue producer and two fan-outs have asked.
C19_Witness ==
    /\ client.constructed
    /\ mgr.balance
    /\ Len(services) = 2
    /\ mgr.handed = {1}

\* ------------------------------------------------------------ later tick claims
Adds(tk) == {i \in 1..Len(tk.tlog) : tk.tlog[i].op = "add"}
JobsOf(t) == {j \in 1..Len(queue) : queue[j].timestamp = t * Interval}

\* C21: a tick that runs with a configured group calls queue.add exactly once,
\* as the first thing it does and before redis.keys; the queue holds one job
\* of the tick, carrying the tick's group id, when the call was accepted and
\* none otherwise; the tick goes on while that job is still queued.
C21_OneJobBeforeEnumeration ==
    \A t \in TickIds :
        LET tk == ticks[t]
        IN /\ tk.pc \in {"idle", "add"} => Adds(tk) = {} /\ JobsOf(t) = {}
           /\ tk.pc \notin {"idle", "add"} /\ tk.group # <<>>
              => /\ Adds(tk) = {1}
                 /\ \A i \in 1..Len(tk.tlog) :
                       tk.tlog[i].op = "keys"
                           => i = 2 /\ tk.tlog[1] = Ev("add", "ok")
                 /\ Cardinality(JobsOf(t)) =
                       IF tk.tlog[1] = Ev("add", "ok") THEN 1 ELSE 0
                 /\ \A j \in JobsOf(t) : queue[j].groupId = tk.group
           /\ tk.group = <<>> => JobsOf(t) = {}

\* The first tick has ended and the second is enumerating; each has put one
\* job for the group into the queue, and both jobs are still there.
C21_Witness ==
    /\ ticks[1].pc = "done" /\ Enumerated(ticks[1])
    /\ ticks[2].pc = "keys"
    /\ queue = <<[groupId |-> <<"7">>, timestamp |-> Interval],
                 [groupId |-> <<"7">>, timestamp |-> 2 * Interval]>>

Unusable(tk) == tk.cur # <<>> /\ tk.cur[1].res \in {"nil", "bad"}
FetchesOf(tk, k) == {i \in 1..Len(tk.fetched) : tk.fetched[i] = k}

\* C22: when the GET of a key returned nothing or a value that is not JSON,
\* the tick has made no other call for the key (no lookup, no removal, no
\* DEL), has fetched the key once, has not ended through an error, and is
\* about to take the next key.
C22_UnusableRecordSkipped ==
    /\ faults = 0
    /\ \A t \in TickIds :
          LET tk == ticks[t]
          IN Unusable(tk)
             => /\ tk.pc = "next"
                /\ Len(tk.cur) = 1
                /\ tk.data = NoData /\ tk.member = NoMember
                /\ Cardinality(FetchesOf(tk, CurKey(tk))) = 1

\* One tick found the record of a key missing (the other tick had deleted it)
\* while the other found a record that is not JSON; nobody was removed for
\* either key.
C22_Witness ==
    \E t, u \in TickIds :
        /\ ticks[t].pc = "next" /\ ticks[t].cur = <<Ev("get", "nil")>>
        /\ ticks[u].pc = "next" /\ ticks[u].cur = <<Ev("get", "bad")>>
        /\ store[CurKey(ticks[u])] = RecBad

\* ----------------------------------------------------------- overlapping ticks
\* Tick t is suspended at the DEL of a key that is already gone.
AtSecondDelete(t) ==
    /\ ticks[t].pc = "del"
    /\ store[CurKey(ticks[t])] = None

\* C23: ticks may overlap and work on the same key, each calling
\* banChatMember for the same user (the witness); the DEL of a tick touches
\* no key but its own, and the DEL that comes second, after the key is gone,
\* changes nothing in the store.
C23_SecondDeleteIsNoOp ==
    [][\A t \in TickIds :
          ticks[t].pc = "del" /\ ticks'[t].pc # "del"
              => /\ \A k \in Keys \ {CurKey(ticks[t])} : store'[k] = store[k]
                 /\ AtSecondDelete(t) => store' = store]_vars

\* Two ticks are in flight on the same key; each has had the user removed;
\* the first has deleted the key, the second is about to delete it again
\* while another record is still stored.
C23_Witness ==
    /\ InFlight(1) /\ InFlight(2)
    /\ ticks[1].users # <<>> /\ ticks[2].users # <<>>
    /\ CurKey(ticks[1]) = CurKey(ticks[2])
    /\ HasRes(ticks[1], "ban", "ok") /\ HasRes(ticks[1], "del", "ok")
    /\ HasRes(ticks[2], "ban", "ok") /\ AtSecondDelete(2)
    /\ \E k \in Keys : store[k] # None

\* ------------------------------------------------------------ shutdown order
CloseBegun == mgr.redis \in {"closing", "closed"}

\* C24: in the shutdown sequence of a started client the timer is stopped
\* first, the unsubscribe is issued while the subscriber connection is open,
\* and the connections are closed only after that: no unsubscribe is issued
\* on a subscriber connection that was quit, and no connection is quit while
\* the timer runs or before the unsubscribe was issued.
C24_ShutdownInOrder ==
    /\ \A i \in 1..Len(shut.stops) : ~shut.stops[i].rej
    /\ CloseBegun /\ client.fan # 0
          => /\ ~client.timerOn
             /\ "unsubscribe" \in mgr.subCmds

\* The state after start() has returned: the sentiment service subscribed.
StartedManager == Subscribe(GetInstance(ConstructedManager))
StartedClient ==
    [ConstructedClient EXCEPT !.startPc = "done", !.starts = 1, !.fan = 1,
                              !.armed = [s \in Signals |-> 1]]

InitFrame ==
    /\ store \in [Keys -> Values \cup {None}]
    /\ queue = <<>>
    /\ banned = {}
    /\ groupId = <<"7">>
    /\ ticks = [t \in TickIds |-> IdleTick]
    /\ writes = 0
    /\ envGroupId = <<"7">>
    /\ services = <<[privateGroupId |-> envGroupId]>>
    /\ batches = <<>>
    /\ sends = <<>>
    /\ mgr = StartedManager
    /\ client = StartedClient
    /\ shut = NoShutdown
    /\ faults = 0

NextFrame ==
    \/ \E t \in TickIds : TimerFireInTime(t)
    \/ \E t \in TickIds : AddReturn(t)
    \/ \E t \in TickIds : KeysReturn(t)
    \/ \E t \in TickIds : GetReturn(t)
    \/ \E t \in TickIds : LookupReturn(t)
    \/ \E t \in TickIds : BanReturn(t)
    \/ \E t \in TickIds : DelReturn(t)
    \/ \E t \in TickIds : LoopStep(t)
    \/ Publish(FullBatch)
    \/ \E i \in 1..Len(sends) : SendReturn(i)

\* The loop and the fan-out of a started client side by side.
SpecFrame == InitFrame /\ [][NextFrame]_vars

\* ------------------------------------------------------------ rendering claim
TopicsOf(i) == PayloadOf(i).topics
Listed(i) == {sends[i].line[k] : k \in 1..Len(sends[i].line)}
Shown(i, e) == [text |-> e.topic, count |-> e.count] \in Listed(i)

\* C25: the topics line of every alert lists at most three topics, each as
\* "topic (count)" of an entry of the batch, and no entry of the batch that
\* is left out has a higher count than one that is listed.
C25_TopThreeByCount ==
    \A i \in 1..Len(sends) :
        /\ Len(sends[i].line) <= 3
        /\ \A k \in 1..Len(sends[i].line) :
              \E j \in 1..Len(TopicsOf(i)) :
                  sends[i].line[k] = [text |-> TopicsOf(i)[j].topic,
                                      count |-> TopicsOf(i)[j].count]
        /\ \A j, k \in 1..Len(TopicsOf(i)) :
              Shown(i, TopicsOf(i)[j]) /\ ~Shown(i, TopicsOf(i)[k])
                  => TopicsOf(i)[j].count >= TopicsOf(i)[k].count

\* ---------------------------------------------------------------- frame claim
EnumeratedBy(t, k) ==
    \E i \in 1..Len(ticks[t].users) : ticks[t].users[i] = k
FanoutStep == batches' # batches \/ sends' # sends

\* C26: in every step of the loop and of the fan-out a permission key
\* changes only by becoming absent, and only in the DEL step of a tick whose
\* own enumeration returned that key; a step of the sentiment fan-out leaves
\* the permission store, the job queue and the group membership as they were.
C26_OnlyOwnKeysDeleted ==
    [][/\ \A k \in Keys :
            store'[k] # store[k] =>
                /\ store'[k] = None
                /\ \E t \in TickIds :
                      /\ ticks[t].pc = "del"
                      /\ ticks'[t].pc # "del"
                      /\ CurKey(ticks[t]) = k
                      /\ EnumeratedBy(t, k)
       /\ FanoutStep => UNCHANGED <<store, queue, banned>>]_vars

\* A tick has deleted the record it enumerated, after a batch was fanned out
\* and its alert sent while the record was still there.
C26_Witness ==
    /\ \E t \in TickIds : HasRes(ticks[t], "del", "ok")
    /\ store[UserKey("111")] = None
    /\ "111" \in banned
    /\ \E i \in 1..Len(sends) : sends[i].res = "ok"

\* -------------------------------------------------------- lost update claim
\* C27: whenever a tick's DEL removes a record, the value removed is the one
\* the tick fetched and based its decision on: a value the external worker
\* wrote after the fetch is not removed unseen.
C27_DeletesVersionRead ==
    [][\A t \in TickIds :
          /\ ticks[t].pc = "del"
          /\ ticks'[t].pc # "del"
          /\ store[CurKey(ticks[t])] # None
          /\ store'[CurKey(ticks[t])] = None
          => JsonParse(store[CurKey(ticks[t])]) = ticks[t].data]_vars

\* ------------------------------------------------------------ termination
IsPrefix(a, b) == Len(a) <= Len(b) /\ \A i \in 1..Len(a) : a[i] = b[i]
Distinct(q) == \A i, j \in 1..Len(q) : q[i] = q[j] => i = j
Running(t) == ticks[t].pc \notin {"idle", "done"}
VisitsInOrder ==
    \A t \in TickIds :
        /\ Distinct(ticks[t].fetched)
        /\ IsPrefix(ticks[t].fetched, ticks[t].users)
        /\ Len(ticks[t].fetched) = ticks[t].idx
              \/ (ticks[t].pc = "done" /\ Len(ticks[t].fetched) + 1 = ticks[t].idx)
        /\ ticks[t].pc = "done" /\ Enumerated(ticks[t])
              => ticks[t].fetched = ticks[t].users

\* C28: when every awaited call settles, a callback that has started reaches
\* its end; on the way it fetches the enumerated keys in order, each once,
\* and when it has ended after the enumeration it has fetched all of them.
C28_TickTerminates ==
    /\ []VisitsInOrder
    /\ \A t \in TickIds : Running(t) ~> ticks[t].pc = "done"

\* A tick has ended after two keys although nothing it did for them took
\* effect: both records are still stored and nobody was removed.
C28_Witness ==
    \E t \in TickIds :
        /\ ticks[t].pc = "done"
        /\ Len(ticks[t].users) = 2
        /\ ticks[t].fetched = ticks[t].users
        /\ \A k \in Keys : store[k] = RecFalse
        /\ banned = {}
        /\ writes = 0

====
